---- MODULE Spec2Model ----
(***************************************************************************)
(* A model of the news notifier's fetch -> merge -> persist pipeline:      *)
(* NewsItem and NewsFetcher (src/news_fetcher.py), DataStorage             *)
(* (src/data_storage.py) and the refresh worker of MainWindow              *)
(* (src/main.py).                                                          *)
(***************************************************************************)
EXTENDS Integers, Sequences, FiniteSets, TLC

VARIABLES
    hashseed,    \* the process's string-hash randomisation (PYTHONHASHSEED)
    news_items,  \* table news_items: a set of rows, id is the primary key
    settings,    \* table settings: a set of rows, key is the primary key
    call,        \* the last storage call: operation, arguments, result, exception
    marked,      \* history: ids mark_as_read was called on while stored unread
    repeated,    \* history: the last call repeated the save_news_items before it
    last_saved,  \* history: per key, the value save_setting stored last
    pc,          \* position of each refresh worker thread
    local,       \* locals of each refresh worker thread
    NOTIFICATION_AVAILABLE,  \* notification.py: the toast library was imported
    active_notifications,    \* NotificationManager: id -> click callback
    toasts,      \* the toasts on screen, each holding its click callback
    notify,      \* show_multiple_news_notifications: its locals and history
    categorized, \* the last call of _categorize_by_keywords: title, result
    statusBar    \* MainWindow.statusBar: the message it shows

\* the variables of the notification manager, of the categorizer and of the
\* window
notifier == <<NOTIFICATION_AVAILABLE, active_notifications, toasts, notify,
              categorized, statusBar>>

vars == <<hashseed, news_items, settings, call, marked, repeated, last_saved,
          pc, local, notifier>>

(***************************************************************************)
(* Bounds of the model.                                                    *)
(***************************************************************************)
MaxBatch == 2          \* longest list passed to save_news_items
MaxLimit == 2          \* largest limit passed to the read-back queries
MaxFetch == 2          \* most items one source returns in one cycle

(***************************************************************************)
(* Small helpers on sequences and sets.                                    *)
(***************************************************************************)
Range(s) == {s[i] : i \in DOMAIN s}

SeqsUpTo(S, n) == UNION {[1..k -> S] : k \in 0..n}

Min(a, b) == IF a <= b THEN a ELSE b

(***************************************************************************)
(* Strings are sequences of characters, so that substring tests and        *)
(* lower-casing are computed.  Titles of the model:                        *)
(***************************************************************************)
TitleGPT == <<"G", "p", "t">>      \* contains the AI keyword "GPT"
Title5G  == <<"5", "g">>           \* contains the tech keyword "5G"
Titles == {TitleGPT, Title5G}

\* str.lower() on the characters the model uses
LowerChar(c) ==
    CASE c = "A" -> "a" [] c = "B" -> "b" [] c = "E" -> "e" [] c = "G" -> "g"
      [] c = "I" -> "i" [] c = "L" -> "l" [] c = "M" -> "m" [] c = "N" -> "n"
      [] c = "O" -> "o" [] c = "P" -> "p" [] c = "R" -> "r" [] c = "T" -> "t"
      [] c = "V" -> "v" [] c = "X" -> "x"
      [] OTHER -> c

lower(s) == [i \in DOMAIN s |-> LowerChar(s[i])]

\* Python's  sub in s  for strings
Contains(s, sub) ==
    \E k \in 0..(Len(s) - Len(sub)) :
        \A i \in 1..Len(sub) : s[k + i] = sub[i]

(***************************************************************************)
(* NewsFetcher.__init__: the keyword lists, in their order.                *)
(***************************************************************************)
\* A character outside ASCII is written as its code point, "U+4EBA".
ai_keywords ==
    << <<"U+4EBA", "U+5DE5", "U+667A", "U+80FD">>,
       <<"A", "I">>,
       <<"U+673A", "U+5668", "U+5B66", "U+4E60">>,
       <<"U+6DF1", "U+5EA6", "U+5B66", "U+4E60">>,
       <<"U+795E", "U+7ECF", "U+7F51", "U+7EDC">>,
       <<"U+81EA", "U+7136", "U+8BED", "U+8A00", "U+5904", "U+7406">>,
       <<"N", "L", "P">>,
       <<"U+8BA1", "U+7B97", "U+673A", "U+89C6", "U+89C9">>,
       <<"U+8BED", "U+97F3", "U+8BC6", "U+522B">>,
       <<"U+5F3A", "U+5316", "U+5B66", "U+4E60">>,
       <<"U+5927", "U+8BED", "U+8A00", "U+6A21", "U+578B">>,
       <<"L", "L", "M">>,
       <<"G", "P", "T">>,
       <<"B", "E", "R", "T">>,
       <<"t", "r", "a", "n", "s", "f", "o", "r", "m", "e", "r">>,
       <<"d", "i", "f", "f", "u", "s", "i", "o", "n">>,
       <<"U+751F", "U+6210", "U+5F0F", "A", "I">>,
       <<"U+751F", "U+6210", "U+5F0F", "U+4EBA", "U+5DE5", "U+667A", "U+80FD">> >>

tech_keywords ==
    << <<"U+79D1", "U+6280">>,
       <<"U+6280", "U+672F">>,
       <<"U+521B", "U+65B0">>,
       <<"U+6570", "U+5B57", "U+5316">>,
       <<"U+91CF", "U+5B50", "U+8BA1", "U+7B97">>,
       <<"U+533A", "U+5757", "U+94FE">>,
       <<"U+5143", "U+5B87", "U+5B99">>,
       <<"V", "R">>,
       <<"A", "R">>,
       <<"X", "R">>,
       <<"U+673A", "U+5668", "U+4EBA">>,
       <<"U+81EA", "U+52A8", "U+9A7E", "U+9A76">>,
       <<"U+7269", "U+8054", "U+7F51">>,
       <<"I", "o", "T">>,
       <<"5", "G">>,
       <<"6", "G">>,
       <<"U+534A", "U+5BFC", "U+4F53">>,
       <<"U+82AF", "U+7247">>,
       <<"U+4E91", "U+8BA1", "U+7B97">>,
       <<"U+8FB9", "U+7F18", "U+8BA1", "U+7B97">> >>

\* _categorize_by_keywords with the two scans in the other order
_categorize_tech_first(title) ==
    LET title_lower == lower(title) IN
    IF \E k \in DOMAIN tech_keywords :
          Contains(title_lower, lower(tech_keywords[k]))
    THEN "Tech"
    ELSE IF \E k \in DOMAIN ai_keywords :
                Contains(title_lower, lower(ai_keywords[k]))
    THEN "AI"
    ELSE "AI/Tech"

\* NewsFetcher._categorize_by_keywords
_categorize_by_keywords(title) ==
    LET title_lower == lower(title) IN
    IF \E k \in DOMAIN ai_keywords : Contains(title_lower, lower(ai_keywords[k]))
    THEN "AI"
    ELSE IF \E k \in DOMAIN tech_keywords :
                Contains(title_lower, lower(tech_keywords[k]))
    THEN "Tech"       \* the label U+79D1 U+6280
    ELSE "AI/Tech"

(***************************************************************************)
(* NewsItem.                                                               *)
(***************************************************************************)
\* hash(title) % 10000.  String hashing is salted per process: under seed
\* "collide" the two titles of the model fall into one residue, under
\* "spread" into two.
HashSeeds == {"collide", "spread"}

TitleHash(seed, title) ==
    IF seed = "collide" THEN 7 ELSE Len(title)

\* NewsItem.__init__;  now  is int(time.time()) at construction
NewsItem(seed, now, title, link, source, published_time, category, is_read) ==
    [id             |-> <<source, now, TitleHash(seed, title)>>,
     title          |-> title,
     link           |-> link,
     source         |-> source,
     published_time |-> published_time,
     category       |-> category,
     is_read        |-> is_read]

\* datetime.isoformat / datetime.fromisoformat on naive datetimes: the text
\* form orders as the datetimes do
isoformat(t) == <<"iso", t>>

fromisoformat(s) == s[2]

(***************************************************************************)
(* The items of the model.  An item comes from the API source, with the    *)
(* category its title's keywords give, or from an RSS feed, with the       *)
(* feed's category (fetch_from_newsapi, fetch_from_rss).                   *)
(***************************************************************************)
PublishedTimes == {1, 2}

ApiSources == {"TechCrunch"}

\* the entries of NewsFetcher.rss_feeds that have mock entries; feed
\* "MIT Technology Review" has category "Tech"
rss_feeds == {[name |-> "AI News", category |-> "AI"]}

\* the URL a source gives the article it published at time t
UrlOf(source, t) == <<"https", source, t>>

ApiItem(seed, now, source, title, t) ==
    NewsItem(seed, now, title, UrlOf(source, t), source, t,
             _categorize_by_keywords(title), FALSE)

RssItem(seed, now, feed_info, title, t) ==
    NewsItem(seed, now, title, UrlOf(feed_info.name, t), feed_info.name, t,
             feed_info.category, FALSE)

\* the items the API source, or the feeds, can return at second  now  with
\* published times among  times
ApiItems(seed, now, times) ==
    {ApiItem(seed, now, s, ti, t) : s \in ApiSources, ti \in Titles, t \in times}

RssItems(seed, now, times) ==
    {RssItem(seed, now, f, ti, t) : f \in rss_feeds, ti \in Titles, t \in times}

(***************************************************************************)
(* DataStorage: the item table.                                            *)
(***************************************************************************)
\* the row INSERT INTO news_items writes for an item
ItemRow(item) ==
    [id             |-> item.id,
     title          |-> item.title,
     link           |-> item.link,
     source         |-> item.source,
     published_time |-> isoformat(item.published_time),
     category       |-> item.category,
     is_read        |-> IF item.is_read THEN 1 ELSE 0]

\* RowItem without  item.id = row[0]: the item keeps the id its constructor
\* made
RowItemNewId(seed, now, row) ==
    NewsItem(seed, now, row.title, row.link, row.source,
             fromisoformat(row.published_time), row.category, row.is_read # 0)

\* the NewsItem the read-back loops build from a row: the constructor makes
\* an id of its own, which  item.id = row[0]  then replaces
RowItem(seed, now, row) ==
    [NewsItem(seed, now, row.title, row.link, row.source,
              fromisoformat(row.published_time), row.category, row.is_read # 0)
     EXCEPT !.id = row.id]

\* SELECT id FROM news_items WHERE title = ?  finds a row
TitleStored(table, title) == \E r \in table : r.title = title

\* id is the PRIMARY KEY: the INSERT raises IntegrityError on a stored id
IdStored(table, id) == \E r \in table : r.id = id

\* SaveOne without the SELECT by title: only the primary key stops an insert
SaveOneNoTitleCheck(st, item) ==
    IF IdStored(st.table, item.id)
    THEN st
    ELSE [table       |-> st.table \cup {ItemRow(item)},
          saved_count |-> st.saved_count + 1]

\* SaveOne with  saved_count += 1  ahead of the SELECT by title
SaveOneCountsSkipped(st, item) ==
    IF TitleStored(st.table, item.title)
    THEN [st EXCEPT !.saved_count = @ + 1]
    ELSE IF IdStored(st.table, item.id)
    THEN st
    ELSE [table       |-> st.table \cup {ItemRow(item)},
          saved_count |-> st.saved_count + 1]

\* SaveOne as an upsert: the row of a stored title is written anew
SaveOneReplace(st, item) ==
    IF TitleStored(st.table, item.title)
    THEN [st EXCEPT !.table =
             {r \in @ : r.title # item.title /\ r.id # item.id} \cup {ItemRow(item)}]
    ELSE IF IdStored(st.table, item.id)
    THEN st
    ELSE [table       |-> st.table \cup {ItemRow(item)},
          saved_count |-> st.saved_count + 1]

\* one pass of the loop of save_news_items over  item
SaveOne(st, item) ==
    IF TitleStored(st.table, item.title)
    THEN st                                       \* continue
    ELSE IF IdStored(st.table, item.id)
    THEN st                                       \* except: logged, skipped
    ELSE [table       |-> st.table \cup {ItemRow(item)},
          saved_count |-> st.saved_count + 1]

\* SaveLoop with the inner try around the whole loop: the first insert that
\* fails ends the batch
RECURSIVE SaveLoopFatal(_, _, _)
SaveLoopFatal(st, batch, i) ==
    IF i > Len(batch) THEN st
    ELSE IF /\ ~TitleStored(st.table, batch[i].title)
            /\ IdStored(st.table, batch[i].id)
    THEN st
    ELSE SaveLoopFatal(SaveOne(st, batch[i]), batch, i + 1)

RECURSIVE SaveLoop(_, _, _)
SaveLoop(st, batch, i) ==
    IF i > Len(batch) THEN st
    ELSE SaveLoop(SaveOne(st, batch[i]), batch, i + 1)

\* The outcome of a storage operation: the table after it, the value it
\* returns, the exception it raises to its caller ("none": it returns).
Outcome(table, ret, raised) == [table |-> table, ret |-> ret, raised |-> raised]

\* The points at which the store can fail in an operation.
Faults == {"none", "connect", "execute", "commit"}

\* conn = sqlite3.connect(self.db_path): the local  conn  after the
\* statement; when connect raises, the name is never bound
connect(fault) == IF fault = "connect" THEN "unbound" ELSE "open"

\* the finally clause without  conn.close()
finally_pass(conn) == conn

\* finally: if conn: conn.close()  (on an unbound  conn  the test raises
\* UnboundLocalError, and no connection was opened)
finally_close(conn) == IF conn = "open" THEN "closed" ELSE conn

\* DataStorage.save_news_items
save_news_items(table, batch, fault) ==
    IF batch = <<>> THEN Outcome(table, 0, "none")
    ELSE IF fault = "connect"
    THEN \* except: return 0; then finally reads the unbound local conn
         Outcome(table, 0, "UnboundLocalError")
    ELSE IF fault \in {"execute", "commit"}
    THEN Outcome(table, 0, "none")   \* nothing committed; close rolls back
    ELSE LET st == SaveLoop([table |-> table, saved_count |-> 0], batch, 1)
         IN  Outcome(st.table, st.saved_count, "none")

\* ORDER BY published_time DESC compares the ISO texts
TextGeq(a, b) == a[2] >= b[2]

\* OrderedLimit without the ORDER BY: any  limit  rows, in any order
UnorderedLimit(rows, limit) ==
    LET n == IF limit < 0 THEN Cardinality(rows)
             ELSE Min(limit, Cardinality(rows))
    IN {s \in [1..n -> rows] : \A i, j \in 1..n : i < j => s[i] # s[j]}

\* the lists a query  ORDER BY published_time DESC LIMIT limit  can return
\* over  rows; the order of rows with equal published_time is the store's
\* choice, and a negative LIMIT is no limit
OrderedLimit(rows, limit) ==
    LET n == IF limit < 0 THEN Cardinality(rows)
             ELSE Min(limit, Cardinality(rows))
    IN {s \in [1..n -> rows] :
          /\ \A i, j \in 1..n : i < j =>
                 /\ s[i] # s[j]
                 /\ TextGeq(s[i].published_time, s[j].published_time)
          /\ \A r \in rows \ Range(s) : \A i \in 1..n :
                 TextGeq(s[i].published_time, r.published_time)}

RowItems(seed, now, rows) == [i \in DOMAIN rows |-> RowItem(seed, now, rows[i])]

\* DataStorage.get_latest_news: the outcomes it can have
get_latest_news(seed, now, table, limit, fault) ==
    IF fault = "connect" THEN {Outcome(table, <<>>, "UnboundLocalError")}
    ELSE IF fault = "execute" THEN {Outcome(table, <<>>, "none")}
    ELSE {Outcome(table, RowItems(seed, now, rows), "none") :
             rows \in OrderedLimit(table, limit)}

\* get_unread_news without  WHERE is_read = 0
get_unread_news_unfiltered(seed, now, table, limit, fault) ==
    IF fault = "connect" THEN {Outcome(table, <<>>, "UnboundLocalError")}
    ELSE IF fault = "execute" THEN {Outcome(table, <<>>, "none")}
    ELSE {Outcome(table, RowItems(seed, now, rows), "none") :
             rows \in OrderedLimit(table, limit)}

\* get_unread_news with the filter applied to the rows that LIMIT kept
get_unread_news_filter_last(seed, now, table, limit, fault) ==
    IF fault = "connect" THEN {Outcome(table, <<>>, "UnboundLocalError")}
    ELSE IF fault = "execute" THEN {Outcome(table, <<>>, "none")}
    ELSE {Outcome(table, RowItems(seed, now, SelectSeq(rows, LAMBDA r : r.is_read = 0)),
                  "none") :
             rows \in OrderedLimit(table, limit)}

\* DataStorage.get_unread_news: the outcomes it can have
get_unread_news(seed, now, table, limit, fault) ==
    IF fault = "connect" THEN {Outcome(table, <<>>, "UnboundLocalError")}
    ELSE IF fault = "execute" THEN {Outcome(table, <<>>, "none")}
    ELSE {Outcome(table, RowItems(seed, now, rows), "none") :
             rows \in OrderedLimit({r \in table : r.is_read = 0}, limit)}

\* UPDATE news_items SET is_read = 1  without the WHERE clause
UpdateReadAll(table, news_id) ==
    {[r EXCEPT !.is_read = 1] : r \in table}

\* UPDATE news_items SET is_read = 1 WHERE id = ?
UpdateRead(table, news_id) ==
    {IF r.id = news_id THEN [r EXCEPT !.is_read = 1] ELSE r : r \in table}

\* DataStorage.mark_as_read
mark_as_read(table, news_id, fault) ==
    IF fault = "connect" THEN Outcome(table, FALSE, "UnboundLocalError")
    ELSE IF fault \in {"execute", "commit"} THEN Outcome(table, FALSE, "none")
    ELSE Outcome(UpdateRead(table, news_id), TRUE, "none")

(***************************************************************************)
(* Setting values.  A Python value is a record: tag names its type, atom    *)
(* holds a scalar's text, keys a dict's keys, elems a container's members.  *)
(***************************************************************************)
PyNone == [tag |-> "None", atom |-> "", keys |-> <<>>, elems |-> <<>>]
PyBool(text) == [tag |-> "bool", atom |-> text, keys |-> <<>>, elems |-> <<>>]
PyInt(digits) == [tag |-> "int", atom |-> digits, keys |-> <<>>, elems |-> <<>>]
PyStr(text) == [tag |-> "str", atom |-> text, keys |-> <<>>, elems |-> <<>>]
PyList(elems) == [tag |-> "list", atom |-> "", keys |-> <<>>, elems |-> elems]
PyTuple(elems) == [tag |-> "tuple", atom |-> "", keys |-> <<>>, elems |-> elems]
PyDict(keys, elems) == [tag |-> "dict", atom |-> "", keys |-> keys, elems |-> elems]
PySet(elems) == [tag |-> "set", atom |-> "", keys |-> <<>>, elems |-> elems]

\* A JSON text, by what it denotes.
JsonText(kind, atom, keys, elems) ==
    [kind |-> kind, atom |-> atom, keys |-> keys, elems |-> elems]

\* json.dumps accepts str, int, bool and None as a dict's keys
KeySerializable(k) == k.tag \in {"str", "int", "bool", "None"}

\* json.dumps raises TypeError on any other value
RECURSIVE Serializable(_)
Serializable(v) ==
    /\ v.tag \in {"None", "bool", "int", "str", "list", "tuple", "dict"}
    /\ \A i \in DOMAIN v.keys : KeySerializable(v.keys[i])
    /\ \A i \in DOMAIN v.elems : Serializable(v.elems[i])

\* the member name json.dumps writes for a dict key: a key that is no str
\* is written as the text of its JSON form
KeyText(k) == IF k.tag = "None" THEN "null" ELSE k.atom

\* json.dumps
RECURSIVE json_dumps(_)
json_dumps(v) ==
    CASE v.tag = "None" -> JsonText("null", "", <<>>, <<>>)
      [] v.tag = "bool" -> JsonText("boolean", v.atom, <<>>, <<>>)
      [] v.tag = "int"  -> JsonText("number", v.atom, <<>>, <<>>)
      [] v.tag = "str"  -> JsonText("string", v.atom, <<>>, <<>>)
      [] v.tag \in {"list", "tuple"} ->
             JsonText("array", "", <<>>,
                      [i \in DOMAIN v.elems |-> json_dumps(v.elems[i])])
      [] v.tag = "dict" ->
             JsonText("object", "",
                      [i \in DOMAIN v.keys |-> KeyText(v.keys[i])],
                      [i \in DOMAIN v.elems |-> json_dumps(v.elems[i])])

\* the positions of an object's members that the dict json.loads builds
\* keeps: a repeated name keeps its first place and its last value
FirstPlaces(names) ==
    {i \in DOMAIN names : \A j \in 1..(i - 1) : names[j] # names[i]}

LastPlace(names, i) ==
    CHOOSE j \in DOMAIN names :
        /\ names[j] = names[i]
        /\ \A k \in DOMAIN names : names[k] = names[i] => k <= j

RECURSIVE Pick(_, _, _)
Pick(s, places, i) ==
    IF i > Len(s) THEN <<>>
    ELSE IF i \in places THEN <<s[i]>> \o Pick(s, places, i + 1)
    ELSE Pick(s, places, i + 1)

\* json.loads
RECURSIVE json_loads(_)
json_loads(j) ==
    CASE j.kind = "null"    -> PyNone
      [] j.kind = "boolean" -> PyBool(j.atom)
      [] j.kind = "number"  -> PyInt(j.atom)
      [] j.kind = "string"  -> PyStr(j.atom)
      [] j.kind = "array"   ->
             PyList([i \in DOMAIN j.elems |-> json_loads(j.elems[i])])
      [] j.kind = "object"  ->
             LET places == FirstPlaces(j.keys)
                 vals == [i \in DOMAIN j.keys |->
                             json_loads(j.elems[LastPlace(j.keys, i)])]
             IN PyDict([i \in DOMAIN Pick(j.keys, places, 1) |->
                           PyStr(Pick(j.keys, places, 1)[i])],
                       Pick(vals, places, 1))

(***************************************************************************)
(* DataStorage: the settings table.                                        *)
(***************************************************************************)
KeyStored(table, key) == \E r \in table : r.key = key

\* Upsert without the SELECT by key: every save inserts a row
UpsertInsertAlways(table, key, value_json) ==
    table \cup {[key |-> key, value |-> value_json]}

\* Upsert without the UPDATE branch: a stored key keeps its value
UpsertInsertOnly(table, key, value_json) ==
    IF KeyStored(table, key)
    THEN table
    ELSE table \cup {[key |-> key, value |-> value_json]}

\* UPDATE settings SET value = ? WHERE key = ?, or INSERT INTO settings
Upsert(table, key, value_json) ==
    IF KeyStored(table, key)
    THEN {IF r.key = key THEN [r EXCEPT !.value = value_json] ELSE r : r \in table}
    ELSE table \cup {[key |-> key, value |-> value_json]}

\* DataStorage.save_setting
save_setting(table, key, value, fault) ==
    IF fault = "connect" THEN Outcome(table, FALSE, "UnboundLocalError")
    ELSE IF ~Serializable(value) THEN Outcome(table, FALSE, "none")  \* TypeError
    ELSE IF fault \in {"execute", "commit"} THEN Outcome(table, FALSE, "none")
    ELSE Outcome(Upsert(table, key, json_dumps(value)), TRUE, "none")

\* DataStorage.get_setting
get_setting(table, key, default, fault) ==
    IF fault = "connect" THEN Outcome(table, default, "UnboundLocalError")
    ELSE IF fault = "execute" THEN Outcome(table, default, "none")
    ELSE IF KeyStored(table, key)
    THEN Outcome(table, json_loads((CHOOSE r \in table : r.key = key).value), "none")
    ELSE Outcome(table, default, "none")

(***************************************************************************)
(* NewsFetcher.fetch_all_news: the merge of what the sources returned.     *)
(***************************************************************************)
\* InsertDesc with  reverse=True  left out: oldest first
RECURSIVE InsertAsc(_, _)
InsertAsc(sorted, item) ==
    IF sorted = <<>> THEN <<item>>
    ELSE IF Head(sorted).published_time <= item.published_time
    THEN <<Head(sorted)>> \o InsertAsc(Tail(sorted), item)
    ELSE <<item>> \o sorted

\* list.sort that puts an item before the items of equal published_time
RECURSIVE InsertDescBeforeEqual(_, _)
InsertDescBeforeEqual(sorted, item) ==
    IF sorted = <<>> THEN <<item>>
    ELSE IF Head(sorted).published_time > item.published_time
    THEN <<Head(sorted)>> \o InsertDescBeforeEqual(Tail(sorted), item)
    ELSE <<item>> \o sorted

\* list.sort(key=published_time, reverse=True) is stable: an item goes
\* behind the items that are as new or newer and came before it
RECURSIVE InsertDesc(_, _)
InsertDesc(sorted, item) ==
    IF sorted = <<>> THEN <<item>>
    ELSE IF Head(sorted).published_time >= item.published_time
    THEN <<Head(sorted)>> \o InsertDesc(Tail(sorted), item)
    ELSE <<item>> \o sorted

RECURSIVE SortDesc(_)
SortDesc(all_news) ==
    IF all_news = <<>> THEN <<>>
    ELSE InsertDesc(SortDesc(SubSeq(all_news, 1, Len(all_news) - 1)),
                    all_news[Len(all_news)])

\* the pass that keeps the first item of each title
RECURSIVE UniqueNews(_, _)
UniqueNews(all_news, unique_titles) ==
    IF all_news = <<>> THEN <<>>
    ELSE IF Head(all_news).title \notin unique_titles
    THEN <<Head(all_news)>> \o
         UniqueNews(Tail(all_news), unique_titles \cup {Head(all_news).title})
    ELSE UniqueNews(Tail(all_news), unique_titles)

\* fetch_all_news with the two passes in the other order: titles are made
\* unique in arrival order, and the sort comes last
fetch_all_news_unique_first(from_newsapi, from_rss) ==
    SortDesc(UniqueNews(from_newsapi \o from_rss, {}))

\* NewsFetcher.fetch_all_news, given what the two fetches returned
fetch_all_news(from_newsapi, from_rss) ==
    UniqueNews(SortDesc(from_newsapi \o from_rss), {})

(***************************************************************************)
(* The state after construction, and the calls of the storage interface.   *)
(***************************************************************************)
Workers == {1, 2}

NoId == <<"", 0, 0>>

NoCall ==
    [op |-> "none", batch |-> <<>>, news_id |-> NoId, limit |-> 0,
     key |-> "", value |-> PyNone,
     count |-> 0, ok |-> FALSE, news |-> <<>>, setting |-> PyNone,
     raised |-> "none", conn |-> "none"]

NoLocal ==
    [from_newsapi |-> <<>>, from_rss |-> <<>>, news_items |-> <<>>,
     i |-> 1, saved_count |-> 0, inserted |-> {}, writing |-> FALSE,
     event |-> "none", posted |-> 0,
     articles |-> <<>>, entries |-> <<>>, api_fail |-> 0, rss_fail |-> 0]

NeverSaved == [saved |-> FALSE, value |-> PyNone]

\* no click yet
NoClick == [id |-> NoId, link |-> <<>>, opened |-> "none"]

\* show_multiple_news_notifications not called yet.  attempted, shown, slept
\* and last are history: the items passed to show_news_notification, what
\* each call returned, the places a sleep followed, the last step taken
NoNotify ==
    [pc |-> "idle", news_items |-> <<>>, i |-> 1, success_count |-> 0,
     returned |-> FALSE, count |-> 0,
     attempted |-> <<>>, shown |-> <<>>, slept |-> <<>>,
     last |-> "none", click |-> NoClick]

NotCategorized == [title |-> <<>>, category |-> "none"]

\* the second at which the items of the storage calls were constructed
CallSecond == 1

\* int(time.time()) while a read operation builds items from rows: a later
\* second than the one in which the items of the calls were constructed
ReadSecond == 2

\* the items of the storage calls: each title as the API source published
\* it at time 1 and as the feed published it at time 2
CallItems(seed) ==
    ApiItems(seed, CallSecond, {1}) \cup RssItems(seed, CallSecond, {2})

Batches(seed) == SeqsUpTo(CallItems(seed), MaxBatch)

NewsIds(seed) == {it.id : it \in CallItems(seed)}

Limits == 0..MaxLimit

SettingKeys == {"refresh_interval", "test_key"}

Init ==
    /\ hashseed \in HashSeeds
    /\ news_items = {}
    /\ settings = {}
    /\ call = NoCall
    /\ marked = {}
    /\ repeated = FALSE
    /\ last_saved = [k \in SettingKeys |-> NeverSaved]
    /\ pc = [w \in Workers |-> "idle"]
    /\ local = [w \in Workers |-> NoLocal]
    /\ NOTIFICATION_AVAILABLE \in BOOLEAN
    /\ active_notifications = {}
    /\ toasts = {}
    /\ notify = NoNotify
    /\ categorized = NotCategorized
    /\ statusBar = "ready"

SaveNewsItems(batch, fault) ==
    LET o == save_news_items(news_items, batch, fault) IN
    /\ news_items' = o.table
    /\ call' = [NoCall EXCEPT !.op = "save_news_items", !.batch = batch,
                              !.count = o.ret, !.raised = o.raised,
                              !.conn = IF batch = <<>> THEN "none"
                                        ELSE finally_close(connect(fault))]
    /\ repeated' = (call.op = "save_news_items" /\ call.batch = batch)
    /\ UNCHANGED <<notifier, hashseed, settings, marked, last_saved, pc, local>>

GetLatestNews(limit, fault) ==
    \E o \in get_latest_news(hashseed, ReadSecond, news_items, limit, fault) :
        /\ call' = [NoCall EXCEPT !.op = "get_latest_news", !.limit = limit,
                                  !.news = o.ret, !.raised = o.raised,
                                  !.conn = finally_close(connect(fault))]
        /\ repeated' = FALSE
        /\ UNCHANGED <<notifier, hashseed, news_items, settings, marked, last_saved, pc, local>>

GetUnreadNews(limit, fault) ==
    \E o \in get_unread_news(hashseed, ReadSecond, news_items, limit, fault) :
        /\ call' = [NoCall EXCEPT !.op = "get_unread_news", !.limit = limit,
                                  !.news = o.ret, !.raised = o.raised,
                                  !.conn = finally_close(connect(fault))]
        /\ repeated' = FALSE
        /\ UNCHANGED <<notifier, hashseed, news_items, settings, marked, last_saved, pc, local>>

MarkAsRead(news_id, fault) ==
    LET o == mark_as_read(news_items, news_id, fault) IN
    /\ news_items' = o.table
    /\ call' = [NoCall EXCEPT !.op = "mark_as_read", !.news_id = news_id,
                              !.ok = o.ret, !.raised = o.raised,
                                  !.conn = finally_close(connect(fault))]
    /\ marked' = IF \E r \in news_items : r.id = news_id /\ r.is_read = 0
                 THEN marked \cup {news_id}
                 ELSE marked
    /\ repeated' = FALSE
    /\ UNCHANGED <<notifier, hashseed, settings, last_saved, pc, local>>

SaveSetting(key, value, fault) ==
    LET o == save_setting(settings, key, value, fault) IN
    /\ settings' = o.table
    /\ call' = [NoCall EXCEPT !.op = "save_setting", !.key = key, !.value = value,
                              !.ok = o.ret, !.raised = o.raised,
                                  !.conn = finally_close(connect(fault))]
    /\ last_saved' = IF o.raised = "none" /\ o.ret
                     THEN [last_saved EXCEPT ![key] = [saved |-> TRUE, value |-> value]]
                     ELSE last_saved
    /\ repeated' = FALSE
    /\ UNCHANGED <<notifier, hashseed, news_items, marked, pc, local>>

GetSetting(key, default, fault) ==
    LET o == get_setting(settings, key, default, fault) IN
    /\ call' = [NoCall EXCEPT !.op = "get_setting", !.key = key, !.value = default,
                              !.setting = o.ret, !.raised = o.raised,
                                  !.conn = finally_close(connect(fault))]
    /\ repeated' = FALSE
    /\ UNCHANGED <<notifier, hashseed, news_items, settings, marked, last_saved, pc, local>>

\* the storage interface called one operation at a time, the store healthy
Next ==
    \/ \E batch \in Batches(hashseed) : SaveNewsItems(batch, "none")
    \/ \E limit \in Limits : GetLatestNews(limit, "none")
    \/ \E limit \in Limits : GetUnreadNews(limit, "none")
    \/ \E news_id \in NewsIds(hashseed) : MarkAsRead(news_id, "none")
    \/ SaveSetting("test_key", PyStr("test_value"), "none")
    \/ GetSetting("test_key", PyNone, "none")

Spec == Init /\ [][Next]_vars

(***************************************************************************)
(* MainWindow.refresh_news and _fetch_news_thread: one refresh cycle on a   *)
(* worker thread.                                                           *)
(***************************************************************************)
\* int(time.time()) while worker w constructs its items
RefreshSecond(w) == w

\* MainWindow.refresh_news, on the foreground thread: writes the status
\* bar and starts the worker thread
RefreshNews(w) ==
    /\ pc[w] = "idle"
    /\ statusBar' = "fetching"
    /\ pc' = [pc EXCEPT ![w] = "fetch"]
    /\ local' = [local EXCEPT ![w] = NoLocal]
    /\ UNCHANGED <<hashseed, news_items, settings, call, marked, repeated,
                   last_saved, NOTIFICATION_AVAILABLE, active_notifications,
                   toasts, notify, categorized>>

\* news_items = self.fetcher.fetch_all_news(), the sources returning up to
\* MaxFetch items each out of  api  and  rss
FetchAllNews(w, api, rss) ==
    /\ pc[w] = "fetch"
    /\ \E from_newsapi \in SeqsUpTo(api, MaxFetch), from_rss \in SeqsUpTo(rss, MaxFetch) :
          local' = [local EXCEPT ![w] =
                       [@ EXCEPT !.from_newsapi = from_newsapi,
                                 !.from_rss = from_rss,
                                 !.news_items = fetch_all_news(from_newsapi, from_rss)]]
    /\ pc' = [pc EXCEPT ![w] = "save"]
    /\ UNCHANGED <<notifier, hashseed, news_items, settings, call, marked, repeated, last_saved>>

\* saved_count = self.storage.save_news_items(news_items), no other storage
\* call running
SaveFetched(w) ==
    LET o == save_news_items(news_items, local[w].news_items, "none") IN
    /\ pc[w] = "save"
    /\ news_items' = o.table
    /\ call' = [NoCall EXCEPT !.op = "save_news_items", !.batch = local[w].news_items,
                              !.count = o.ret, !.raised = o.raised,
                              !.conn = IF local[w].news_items = <<>> THEN "none"
                                       ELSE finally_close(connect("none"))]
    /\ repeated' = FALSE
    /\ local' = [local EXCEPT ![w] = [@ EXCEPT !.saved_count = o.ret]]
    /\ pc' = [pc EXCEPT ![w] = "post"]
    /\ UNCHANGED <<notifier, hashseed, settings, marked, last_saved>>

\* QApplication.instance().postEvent(self, NewsRefreshEvent(saved_count, ...))
PostEvent(w) ==
    /\ pc[w] = "post"
    /\ local' = [local EXCEPT ![w] = [@ EXCEPT !.event = "NewsRefreshEvent",
                                              !.posted = @ + 1]]
    /\ pc' = [pc EXCEPT ![w] = "done"]
    /\ UNCHANGED <<notifier, hashseed, news_items, settings, call, marked, repeated, last_saved>>

\* one refresh cycle on the store as constructed
NextRefresh ==
    \/ RefreshNews(1)
    \/ FetchAllNews(1, ApiItems(hashseed, RefreshSecond(1), PublishedTimes),
                       RssItems(hashseed, RefreshSecond(1), PublishedTimes))
    \/ SaveFetched(1)
    \/ PostEvent(1)

SpecRefresh == Init /\ [][NextRefresh]_vars

(***************************************************************************)
(* Refresh cycles on a store that can fail, each worker thread scheduled    *)
(* until it ends.                                                           *)
(***************************************************************************)
\* saved_count = self.storage.save_news_items(news_items), the store failing
\* at the point  fault: an exception of the call goes to the except clause
SaveOrRaise(w, fault) ==
    LET o == save_news_items(news_items, local[w].news_items, fault) IN
    /\ pc[w] = "save"
    /\ news_items' = o.table
    /\ call' = [NoCall EXCEPT !.op = "save_news_items", !.batch = local[w].news_items,
                              !.count = o.ret, !.raised = o.raised,
                              !.conn = IF local[w].news_items = <<>> THEN "none"
                                       ELSE finally_close(connect(fault))]
    /\ repeated' = FALSE
    /\ local' = [local EXCEPT ![w] =
                    [@ EXCEPT !.saved_count = IF o.raised = "none" THEN o.ret ELSE @]]
    /\ pc' = [pc EXCEPT ![w] = IF o.raised = "none" THEN "post" ELSE "except"]
    /\ UNCHANGED <<notifier, hashseed, settings, marked, last_saved>>

\* the except clause with the logging alone
LogError(w) ==
    /\ pc[w] = "except"
    /\ pc' = [pc EXCEPT ![w] = "done"]
    /\ UNCHANGED <<notifier, hashseed, news_items, settings, call, marked, repeated,
                   last_saved, local>>

\* except Exception as e: logger.error(...);
\* QApplication.instance().postEvent(self, NewsRefreshErrorEvent(str(e)))
PostErrorEvent(w) ==
    /\ pc[w] = "except"
    /\ local' = [local EXCEPT ![w] = [@ EXCEPT !.event = "NewsRefreshErrorEvent",
                                              !.posted = @ + 1]]
    /\ pc' = [pc EXCEPT ![w] = "done"]
    /\ UNCHANGED <<notifier, hashseed, news_items, settings, call, marked, repeated, last_saved>>

\* a step of the worker thread of cycle w, the API source returning up to
\* MaxFetch items and the feeds none
FetchNewsThread(w) ==
    \/ FetchAllNews(w, ApiItems(hashseed, RefreshSecond(w), {1}), {})
    \/ \E fault \in Faults : SaveOrRaise(w, fault)
    \/ PostEvent(w)
    \/ PostErrorEvent(w)

\* refresh cycles started at any time, overlapping or not
NextCycle ==
    \E w \in Workers :
        \/ RefreshNews(w)
        \/ FetchNewsThread(w)

\* a started thread runs as long as it has a step to take
SpecCycle ==
    /\ Init
    /\ [][NextCycle]_vars
    /\ \A w \in Workers : WF_vars(FetchNewsThread(w))

(***************************************************************************)
(* Sources that fail.  The item that  articles[k]  or  entries[k]  gives is *)
(* the k-th the source builds;  fail_at = k > 0  says that building it      *)
(* raises, fail_at = 0 that nothing raises.                                 *)
(***************************************************************************)
\* NewsFetcher.fetch_from_newsapi: the list is local to the try, and the
\* except clause returns []
fetch_from_newsapi(articles, fail_at) ==
    IF fail_at = 0 THEN articles ELSE <<>>

\* NewsFetcher.fetch_from_rss on one feed: the items are appended to the
\* list of the whole call, and the except clause of the feed only logs
fetch_from_rss(entries, fail_at) ==
    IF fail_at = 0 THEN entries ELSE SubSeq(entries, 1, fail_at - 1)

\* news_items = self.fetcher.fetch_all_news(), the sources holding up to
\* MaxFetch items each, either of them failing or not
FetchFromSources(w, api, rss) ==
    /\ pc[w] = "fetch"
    /\ \E articles \in SeqsUpTo(api, MaxFetch), entries \in SeqsUpTo(rss, MaxFetch) :
          \E api_fail \in 0..Len(articles), rss_fail \in 0..Len(entries) :
             LET from_newsapi == fetch_from_newsapi(articles, api_fail)
                 from_rss == fetch_from_rss(entries, rss_fail)
             IN local' = [local EXCEPT ![w] =
                             [@ EXCEPT !.articles = articles,
                                       !.entries = entries,
                                       !.api_fail = api_fail,
                                       !.rss_fail = rss_fail,
                                       !.from_newsapi = from_newsapi,
                                       !.from_rss = from_rss,
                                       !.news_items = fetch_all_news(from_newsapi, from_rss)]]
    /\ pc' = [pc EXCEPT ![w] = "save"]
    /\ UNCHANGED <<notifier, hashseed, news_items, settings, call, marked, repeated, last_saved>>

\* one refresh cycle over sources that can fail
NextFetch ==
    \/ RefreshNews(1)
    \/ FetchFromSources(1, ApiItems(hashseed, RefreshSecond(1), PublishedTimes),
                           RssItems(hashseed, RefreshSecond(1), PublishedTimes))
    \/ SaveFetched(1)
    \/ PostEvent(1)

SpecFetch == Init /\ [][NextFetch]_vars

(***************************************************************************)
(* _categorize_by_keywords on titles of up to MaxTitle characters.          *)
(***************************************************************************)
MaxTitle == 4          \* longest title passed to _categorize_by_keywords

\* the characters of those titles: "Ai" and "AR" are keywords up to case,
\* U+79D1 U+6280 is the first tech keyword, "x" is in no keyword
TitleChars == {"A", "i", "R", "x", "U+79D1", "U+6280"}

\* the state after construction, a title waiting to be categorized
InitCategorize ==
    /\ hashseed \in HashSeeds
    /\ news_items = {}
    /\ settings = {}
    /\ call = NoCall
    /\ marked = {}
    /\ repeated = FALSE
    /\ last_saved = [k \in SettingKeys |-> NeverSaved]
    /\ pc = [w \in Workers |-> "idle"]
    /\ local = [w \in Workers |-> NoLocal]
    /\ NOTIFICATION_AVAILABLE \in BOOLEAN
    /\ active_notifications = {}
    /\ toasts = {}
    /\ notify = NoNotify
    /\ categorized \in {[title |-> t, category |-> "none"] :
                           t \in SeqsUpTo(TitleChars, MaxTitle)}
    /\ statusBar = "ready"

\* category = self._categorize_by_keywords(title)
CategorizeByKeywords ==
    /\ categorized.category = "none"
    /\ categorized' =
          [categorized EXCEPT !.category = _categorize_by_keywords(categorized.title)]
    /\ UNCHANGED <<hashseed, news_items, settings, call, marked, repeated,
                   last_saved, pc, local, NOTIFICATION_AVAILABLE,
                   active_notifications, toasts, notify, statusBar>>

SpecCategorize == InitCategorize /\ [][CategorizeByKeywords]_vars

(***************************************************************************)
(* The storage interface on a store that can fail.                          *)
(***************************************************************************)
\* the storage interface called one operation at a time, the store failing
\* at the point  fault  of the call
NextFault ==
    \E fault \in Faults :
        \/ \E batch \in Batches(hashseed) : SaveNewsItems(batch, fault)
        \/ \E limit \in Limits : GetLatestNews(limit, fault)
        \/ \E limit \in Limits : GetUnreadNews(limit, fault)
        \/ \E news_id \in NewsIds(hashseed) : MarkAsRead(news_id, fault)
        \/ SaveSetting("test_key", PyStr("test_value"), fault)
        \/ GetSetting("test_key", PyNone, fault)

SpecFault == Init /\ [][NextFault]_vars

\* the same interface and faults, the items of the calls those of the API
\* source
NextRelease ==
    \E fault \in Faults :
        \/ \E batch \in SeqsUpTo(ApiItems(hashseed, CallSecond, {1}), MaxBatch) :
              SaveNewsItems(batch, fault)
        \/ \E limit \in Limits : GetLatestNews(limit, fault)
        \/ \E limit \in Limits : GetUnreadNews(limit, fault)
        \/ \E item \in ApiItems(hashseed, CallSecond, {1}) : MarkAsRead(item.id, fault)
        \/ SaveSetting("test_key", PyStr("test_value"), fault)
        \/ GetSetting("test_key", PyNone, fault)

SpecRelease == Init /\ [][NextRelease]_vars

(***************************************************************************)
(* Two refresh cycles whose save_news_items calls interleave, each on its   *)
(* own connection.  A connection sees the committed rows and its own; its   *)
(* first INSERT opens the write transaction, which it holds to its commit.  *)
(***************************************************************************)
\* the rows worker w reads
View(w) == news_items \cup local[w].inserted

\* another connection holds the write transaction
Locked(w) == \E v \in Workers \ {w} : local[v].writing

\* the loop of save_news_items moves to the item after  local[w].i
AfterItem(w) ==
    IF local[w].i + 1 > Len(local[w].news_items) THEN "commit" ELSE "select"

\* if not news_items: return 0; else connect, saved_count = 0
OpenSave(w) ==
    /\ pc[w] = "save"
    /\ pc' = [pc EXCEPT ![w] = IF local[w].news_items = <<>> THEN "post" ELSE "select"]
    /\ local' = [local EXCEPT ![w] =
                    [@ EXCEPT !.i = 1, !.saved_count = 0, !.inserted = {}]]
    /\ UNCHANGED <<notifier, hashseed, news_items, settings, call, marked, repeated, last_saved>>

\* SELECT id FROM news_items WHERE title = ?; if cursor.fetchone(): continue
SelectTitle(w) ==
    LET item == local[w].news_items[local[w].i] IN
    /\ pc[w] = "select"
    /\ IF TitleStored(View(w), item.title)
       THEN /\ pc' = [pc EXCEPT ![w] = AfterItem(w)]
            /\ local' = [local EXCEPT ![w] = [@ EXCEPT !.i = @ + 1]]
       ELSE /\ pc' = [pc EXCEPT ![w] = "insert"]
            /\ UNCHANGED local
    /\ UNCHANGED <<notifier, hashseed, news_items, settings, call, marked, repeated, last_saved>>

\* INSERT INTO news_items ...; saved_count += 1  (IntegrityError on a stored
\* id: logged, the item skipped), once no other connection is writing
InsertRow(w) ==
    LET item == local[w].news_items[local[w].i] IN
    /\ pc[w] = "insert"
    /\ ~Locked(w)
    /\ local' = [local EXCEPT ![w] =
                    IF IdStored(View(w), item.id)
                    THEN [@ EXCEPT !.i = @ + 1, !.writing = TRUE]
                    ELSE [@ EXCEPT !.i = @ + 1, !.writing = TRUE,
                                   !.inserted = @ \cup {ItemRow(item)},
                                   !.saved_count = @ + 1]]
    /\ pc' = [pc EXCEPT ![w] = AfterItem(w)]
    /\ UNCHANGED <<notifier, hashseed, news_items, settings, call, marked, repeated, last_saved>>

\* the INSERT times out behind the other connection's write transaction:
\* OperationalError "database is locked", logged, the item skipped
InsertLocked(w) ==
    /\ pc[w] = "insert"
    /\ Locked(w)
    /\ local' = [local EXCEPT ![w] = [@ EXCEPT !.i = @ + 1]]
    /\ pc' = [pc EXCEPT ![w] = AfterItem(w)]
    /\ UNCHANGED <<notifier, hashseed, news_items, settings, call, marked, repeated, last_saved>>

\* conn.commit(); return saved_count
CommitSave(w) ==
    /\ pc[w] = "commit"
    /\ news_items' = news_items \cup local[w].inserted
    /\ local' = [local EXCEPT ![w] = [@ EXCEPT !.inserted = {}, !.writing = FALSE]]
    /\ pc' = [pc EXCEPT ![w] = "post"]
    /\ UNCHANGED <<notifier, hashseed, settings, call, marked, repeated, last_saved>>

\* what the sources return during overlapping cycles
OverlapApi(w) == ApiItems(hashseed, RefreshSecond(w), {1})

OverlapRss(w) == RssItems(hashseed, RefreshSecond(w), {2})

\* two refresh cycles, started one after the other, running together
NextOverlap ==
    \E w \in Workers :
        \/ RefreshNews(w)
        \/ FetchAllNews(w, OverlapApi(w), OverlapRss(w))
        \/ OpenSave(w)
        \/ SelectTitle(w)
        \/ InsertRow(w)
        \/ InsertLocked(w)
        \/ CommitSave(w)
        \/ PostEvent(w)

SpecOverlap == Init /\ [][NextOverlap]_vars

(***************************************************************************)
(* The settings interface over values of every type.                        *)
(***************************************************************************)
OneTwoThree == PyList(<<PyInt("1"), PyInt("2"), PyInt("3")>>)

SettingValues ==
    {PyNone, PyBool("true"), PyInt("30"), PyStr("test_value"), OneTwoThree,
     PyDict(<<PyStr("a"), PyStr("b")>>, <<PyInt("1"), OneTwoThree>>),
     PyTuple(<<PyInt("1"), PyInt("2")>>),
     PyDict(<<PyInt("1")>>, <<PyStr("a")>>),
     PySet(<<PyInt("1")>>)}

Defaults == {PyNone, PyInt("42")}

NextSettings ==
    \/ \E key \in SettingKeys, value \in SettingValues : SaveSetting(key, value, "none")
    \/ \E key \in SettingKeys, default \in Defaults : GetSetting(key, default, "none")

SpecSettings == Init /\ [][NextSettings]_vars

(***************************************************************************)
(* NotificationManager (src/notification.py).                               *)
(***************************************************************************)
MaxNotify == 2         \* longest list passed to show_multiple_news_notifications

\* callback_func of show_news_notification: the closure over the item
Callback(news_item) == [id |-> news_item.id, link |-> news_item.link]

\* self.active_notifications[news_item.id] = callback_func
Register(registry, callback) ==
    {e \in registry : e.id # callback.id} \cup {callback}

\* del self.active_notifications[news_id], when the id is a key
Unregister(registry, news_id) == {e \in registry : e.id # news_id}

\* how threading.Thread(...).start() ends
Starts == {"started", "RuntimeError"}

\* NotificationManager.show_news_notification
show_news_notification(available, registry, screen, news_item, start) ==
    IF ~available
    THEN [active_notifications |-> registry, toasts |-> screen, ret |-> FALSE]
    ELSE IF start = "started"
    THEN [active_notifications |-> Register(registry, Callback(news_item)),
          toasts |-> screen \cup {Callback(news_item)},
          ret |-> TRUE]
    ELSE [active_notifications |-> Register(registry, Callback(news_item)),
          toasts |-> screen,
          ret |-> FALSE]

\* the place of the loop of show_multiple_news_notifications after item i
AfterNotification(i, n) == IF i = n THEN "return" ELSE "show"

\* ShowOne with a failed notification ending the loop
ShowOneFatal(nm, ret) ==
    LET success_count == IF ret THEN nm.success_count + 1 ELSE nm.success_count
        sleeps == ret /\ success_count < Len(nm.news_items)
    IN [nm EXCEPT !.success_count = success_count,
                  !.pc = IF sleeps THEN "sleep"
                         ELSE IF ~ret THEN "return"
                         ELSE AfterNotification(nm.i, Len(nm.news_items)),
                  !.i = IF sleeps THEN @ ELSE @ + 1,
                  !.attempted = Append(@, nm.news_items[nm.i]),
                  !.shown = Append(@, ret),
                  !.last = "show"]

\* one pass of the loop of show_multiple_news_notifications, up to the sleep
ShowOne(nm, ret) ==
    LET success_count == IF ret THEN nm.success_count + 1 ELSE nm.success_count
        sleeps == ret /\ success_count < Len(nm.news_items)
    IN [nm EXCEPT !.success_count = success_count,
                  !.pc = IF sleeps THEN "sleep"
                         ELSE AfterNotification(nm.i, Len(nm.news_items)),
                  !.i = IF sleeps THEN @ ELSE @ + 1,
                  !.attempted = Append(@, nm.news_items[nm.i]),
                  !.shown = Append(@, ret),
                  !.last = "show"]

\* show_multiple_news_notifications is called: if not news_items: return 0
ShowMultipleNewsNotifications(batch) ==
    /\ notify.pc = "idle"
    /\ notify' = [notify EXCEPT !.pc = IF batch = <<>> THEN "idle" ELSE "show",
                                !.news_items = batch,
                                !.i = 1,
                                !.success_count = 0,
                                !.returned = (batch = <<>>),
                                !.count = 0,
                                !.attempted = <<>>,
                                !.shown = <<>>,
                                !.slept = <<>>,
                                !.last = "call"]
    /\ UNCHANGED <<hashseed, news_items, settings, call, marked, repeated,
                   last_saved, pc, local, NOTIFICATION_AVAILABLE,
                   active_notifications, toasts, categorized, statusBar>>

\* if self.show_news_notification(item): success_count += 1
ShowNewsNotification(start) ==
    LET o == show_news_notification(NOTIFICATION_AVAILABLE, active_notifications,
                                    toasts, notify.news_items[notify.i], start)
    IN /\ notify.pc = "show"
       /\ active_notifications' = o.active_notifications
       /\ toasts' = o.toasts
       /\ notify' = ShowOne(notify, o.ret)
       /\ UNCHANGED <<hashseed, news_items, settings, call, marked, repeated,
                      last_saved, pc, local, NOTIFICATION_AVAILABLE, categorized, statusBar>>

\* time.sleep(delay)
Sleep ==
    /\ notify.pc = "sleep"
    /\ notify' = [notify EXCEPT !.pc = AfterNotification(notify.i, Len(notify.news_items)),
                                !.i = @ + 1,
                                !.slept = Append(@, notify.i),
                                !.last = "sleep"]
    /\ UNCHANGED <<hashseed, news_items, settings, call, marked, repeated,
                   last_saved, pc, local, NOTIFICATION_AVAILABLE,
                   active_notifications, toasts, categorized, statusBar>>

\* return success_count
ReturnSuccessCount ==
    /\ notify.pc = "return"
    /\ notify' = [notify EXCEPT !.pc = "idle", !.returned = TRUE,
                                !.count = notify.success_count,
                                !.last = "return"]
    /\ UNCHANGED <<hashseed, news_items, settings, call, marked, repeated,
                   last_saved, pc, local, NOTIFICATION_AVAILABLE,
                   active_notifications, toasts, categorized, statusBar>>

\* what webbrowser.open(url) does: returns True, returns False, raises
Opens == {"True", "False", "raised"}

\* _on_notification_clicked emptying the registry
_on_notification_clicked_all(registry, news_id, opened) ==
    IF opened = "raised" THEN registry
    ELSE {}

\* NotificationManager._on_notification_clicked
_on_notification_clicked(registry, news_id, opened) ==
    IF opened = "raised" THEN registry       \* except: logged
    ELSE Unregister(registry, news_id)

\* the user clicks a toast: its callback_func runs
OnNotificationClicked(callback, opened) ==
    /\ callback \in toasts
    /\ toasts' = toasts \ {callback}
    /\ active_notifications' =
           _on_notification_clicked(active_notifications, callback.id, opened)
    /\ notify' = [notify EXCEPT !.last = "click",
                                !.click = [id |-> callback.id, link |-> callback.link,
                                           opened |-> opened]]
    /\ UNCHANGED <<hashseed, news_items, settings, call, marked, repeated,
                   last_saved, pc, local, NOTIFICATION_AVAILABLE, categorized, statusBar>>

\* a toast leaves the screen after its duration without a click
ToastTimeout(callback) ==
    /\ callback \in toasts
    /\ toasts' = toasts \ {callback}
    /\ notify' = [notify EXCEPT !.last = "timeout"]
    /\ UNCHANGED <<hashseed, news_items, settings, call, marked, repeated,
                   last_saved, pc, local, NOTIFICATION_AVAILABLE,
                   active_notifications, categorized, statusBar>>

\* the lists passed to show_multiple_news_notifications
NotifyBatches(seed) == SeqsUpTo(ApiItems(seed, CallSecond, {1}), MaxNotify)

\* the notification manager called on lists of items, the user clicking
NextNotify ==
    \/ \E batch \in NotifyBatches(hashseed) : ShowMultipleNewsNotifications(batch)
    \/ \E start \in Starts : ShowNewsNotification(start)
    \/ Sleep
    \/ ReturnSuccessCount
    \/ \E callback \in toasts, opened \in Opens : OnNotificationClicked(callback, opened)
    \/ \E callback \in toasts : ToastTimeout(callback)

SpecNotify == Init /\ [][NextNotify]_vars

(***************************************************************************)
(* Stored items shown as notifications: MainWindow.show_notifications on    *)
(* the unread items read from the store.                                    *)
(***************************************************************************)
\* the foreground has read the unread items (the handler of the refresh
\* event, which surfaces the unread items as notifications)
UnreadItemsRead == call.op = "get_unread_news" /\ call.raised = "none"

\* items_to_show = news_items[:3]
items_to_show(items) == SubSeq(items, 1, Min(3, Len(items)))

\* MainWindow.show_notifications(news_items), on the unread items read
ShowNotifications(notification_enabled) ==
    /\ UnreadItemsRead
    /\ notification_enabled
    /\ call.news # <<>>
    /\ ShowMultipleNewsNotifications(items_to_show(call.news))

\* items are saved, read back unread, notified and clicked
NextClick ==
    \/ \E batch \in NotifyBatches(hashseed) : SaveNewsItems(batch, "none")
    \/ \E limit \in Limits : GetUnreadNews(limit, "none")
    \/ \E notification_enabled \in BOOLEAN : ShowNotifications(notification_enabled)
    \/ \E start \in Starts : ShowNewsNotification(start)
    \/ Sleep
    \/ ReturnSuccessCount
    \/ \E callback \in toasts, opened \in Opens : OnNotificationClicked(callback, opened)
    \/ \E callback \in toasts : ToastTimeout(callback)

SpecClick == Init /\ [][NextClick]_vars

(***************************************************************************)
(* Properties of the storage interface, checked under Spec.                *)
(***************************************************************************)
RowsTitled(table, title) == {r \in table : r.title = title}

BatchTitles(batch) == {batch[i].title : i \in DOMAIN batch}

\* C1: after any sequence of save_news_items, mark_as_read and setting
\* calls issued one at a time, no two rows of the item table have the same
\* title, also when one batch holds a title more than once.
C1_TitleUnique ==
    \A r1, r2 \in news_items : r1.title = r2.title => r1 = r2

\* a save whose batch held one title twice, as two different items, and
\* stored it
C1_Witness ==
    /\ call.op = "save_news_items"
    /\ Len(call.batch) = 2
    /\ call.batch[1].title = call.batch[2].title
    /\ call.batch[1].id # call.batch[2].id
    /\ call.count = 1
    /\ Cardinality(news_items) = 2

\* the step is a save_news_items with the batch of the save_news_items
\* before it, no other call in between
SavedAgain ==
    /\ call.op = "save_news_items"
    /\ call'.op = "save_news_items"
    /\ call'.batch = call.batch

\* C2 as stated: save_news_items twice in a row with one batch stores each
\* distinct title of the batch once; the second call returns 0 and leaves
\* the item table as the first call left it.
C2_EachTitleStoredOnce ==
    [][SavedAgain =>
          /\ call'.count = 0
          /\ news_items' = news_items
          /\ \A i \in DOMAIN call'.batch :
                Cardinality(RowsTitled(news_items', call'.batch[i].title)) = 1
      ]_vars

\* C2, amended: the second call returns 0 and leaves the item table as the
\* first call left it, and each distinct title of the batch is stored once,
\* or not at all when the id of every item of that title in the batch is
\* the id of a stored row that has another title.
C2_Idempotent ==
    [][SavedAgain =>
          /\ call'.count = 0
          /\ news_items' = news_items
          /\ \A i \in DOMAIN call'.batch :
                LET title == call'.batch[i].title IN
                \/ Cardinality(RowsTitled(news_items', title)) = 1
                \/ /\ RowsTitled(news_items', title) = {}
                   /\ \A j \in DOMAIN call'.batch :
                         call'.batch[j].title = title =>
                            \E r \in news_items' :
                                r.id = call'.batch[j].id /\ r.title # title
      ]_vars

\* the second of two saves of one batch of two titles, both stored
C2_Witness ==
    /\ repeated
    /\ call.op = "save_news_items"
    /\ call.count = 0
    /\ Cardinality(BatchTitles(call.batch)) = 2
    /\ \A t \in BatchTitles(call.batch) : RowsTitled(news_items, t) # {}

\* C3: an item given to save_news_items whose title is stored leaves the
\* stored row (id, link, source, published_time, category, is_read) as it
\* was and is not counted in the returned value.
C3_StoredTitleSkipped ==
    [][call'.op = "save_news_items" =>
          /\ \A r \in news_items :
                r.title \in BatchTitles(call'.batch) => r \in news_items'
          /\ call'.count <=
                Cardinality(BatchTitles(call'.batch) \ {r.title : r \in news_items})
      ]_vars

\* a save returned 0 for an item whose title is stored in a row that was
\* read before, with another id, link and category and an older time
C3_Witness ==
    /\ call.op = "save_news_items"
    /\ call.count = 0
    /\ \E i \in DOMAIN call.batch : \E r \in news_items :
          /\ r.title = call.batch[i].title
          /\ r.is_read = 1
          /\ r.id # call.batch[i].id
          /\ r.link # call.batch[i].link
          /\ r.source # call.batch[i].source
          /\ r.category # call.batch[i].category
          /\ fromisoformat(r.published_time) < call.batch[i].published_time

\* C4 as stated: mark_as_read with an id that matches no stored row returns
\* false (and leaves every stored row as it was).
C4_UnknownIdReturnsFalse ==
    (call.op = "mark_as_read" /\ ~IdStored(news_items, call.news_id))
        => call.ok = FALSE

\* C5: mark_as_read on a stored unread item returns true, and from then on
\* no result of get_unread_news holds that item, whatever save_news_items,
\* mark_as_read or setting calls follow.
C5_ReadStaysOut ==
    /\ (call.op = "mark_as_read" /\ call.news_id \in marked) => call.ok
    /\ call.op = "get_unread_news" =>
          \A i \in DOMAIN call.news : call.news[i].id \notin marked

\* get_unread_news returned an item while an item marked earlier is stored
\* and the limit left room for it
C5_Witness ==
    /\ call.op = "get_unread_news"
    /\ call.news # <<>>
    /\ call.limit > Len(call.news)
    /\ \E r \in news_items : r.id \in marked

(***************************************************************************)
(* Properties of a refresh cycle, checked under SpecRefresh.               *)
(***************************************************************************)
Fetched(w) == pc[w] \in {"save", "post", "done"}

AllNews(w) == local[w].from_newsapi \o local[w].from_rss

\* C6: for every list of input items the merge step of fetch_all_news
\* returns a list in non-increasing published_time order that holds one
\* item per distinct input title, the one of greatest published_time among
\* the input items of that title.
C6_MergeNewestPerTitle ==
    \A w \in Workers : Fetched(w) =>
        LET all_news == AllNews(w)
            unique_news == local[w].news_items
        IN /\ \A i, j \in DOMAIN unique_news : i < j =>
                  /\ unique_news[i].published_time >= unique_news[j].published_time
                  /\ unique_news[i].title # unique_news[j].title
           /\ BatchTitles(unique_news) = BatchTitles(all_news)
           /\ \A i \in DOMAIN unique_news :
                  /\ unique_news[i] \in Range(all_news)
                  /\ \A k \in DOMAIN all_news :
                        all_news[k].title = unique_news[i].title =>
                           all_news[k].published_time <= unique_news[i].published_time

\* a merge of three or more items, a title of the API list repeated newer
\* in the feed list, that returned two items
C6_Witness ==
    /\ pc[1] = "save"
    /\ Len(AllNews(1)) >= 3
    /\ Len(local[1].news_items) = 2
    /\ \E i \in DOMAIN local[1].from_newsapi, j \in DOMAIN local[1].from_rss :
          /\ local[1].from_newsapi[i].title = local[1].from_rss[j].title
          /\ local[1].from_newsapi[i].published_time
                < local[1].from_rss[j].published_time

\* each of the two sources returned one item, of one title, at two times
OneTitleTwoTimes(w) ==
    /\ Len(local[w].from_newsapi) = 1
    /\ Len(local[w].from_rss) = 1
    /\ local[w].from_newsapi[1].title = local[w].from_rss[1].title
    /\ local[w].from_newsapi[1].published_time # local[w].from_rss[1].published_time

Later(a, b) == IF a.published_time > b.published_time THEN a ELSE b

\* C7: from an empty store, two sources each returning one item with the
\* same title and different timestamps, fetch_all_news and then
\* save_news_items leave one stored row with that title, with the link and
\* source of the item of the later timestamp.
C7_LaterItemStored ==
    \A w \in Workers :
        (pc[w] \in {"post", "done"} /\ OneTitleTwoTimes(w)) =>
            LET later == Later(local[w].from_newsapi[1], local[w].from_rss[1])
            IN /\ Cardinality(news_items) = 1
               /\ \A r \in news_items :
                     /\ r.title = later.title
                     /\ r.link = later.link
                     /\ r.source = later.source
               /\ local[w].saved_count = 1

\* the cycle has saved, the feed's item being the later of the two
C7_Witness ==
    /\ pc[1] = "post"
    /\ OneTitleTwoTimes(1)
    /\ local[1].from_rss[1].published_time > local[1].from_newsapi[1].published_time
    /\ news_items # {}

(***************************************************************************)
(* Properties of the storage interface on a failing store, checked under    *)
(* SpecFault and SpecRelease.                                               *)
(***************************************************************************)
\* C8: no storage operation (save_news_items, get_latest_news,
\* get_unread_news, mark_as_read, save_setting, get_setting) raises to its
\* caller when the store fails at any step of the call, the opening of the
\* connection included.
C8_NoOperationRaises == call.raised = "none"


\* C24: every storage operation has released the connection it opened when
\* it returns or raises, on success, on an exception at any step and on the
\* early return of save_news_items, so that no connection is open between
\* two operations.
C24_ConnectionReleased ==
    /\ call.conn # "open"
    /\ (call.op # "none" /\ call.raised = "none"
          /\ ~(call.op = "save_news_items" /\ call.batch = <<>>))
          => call.conn = "closed"

C24_Witness ==
    /\ call.op = "save_news_items"
    /\ call.batch # <<>>
    /\ call.count = 0
    /\ news_items = {}
    /\ call.raised = "none"
    /\ call.conn = "closed"
(***************************************************************************)
(* Properties of overlapping refresh cycles, checked under SpecOverlap.     *)
(***************************************************************************)
\* C9: when the save_news_items calls of two overlapping refresh cycles
\* have returned, the store holds at most one row per title, and the two
\* returned counts add up to the number of rows added.
C9_OverlapKeepsTitlesUnique ==
    (\A w \in Workers : pc[w] \in {"post", "done"}) =>
        /\ \A title \in Titles : Cardinality(RowsTitled(news_items, title)) <= 1
        /\ local[1].saved_count + local[2].saved_count = Cardinality(news_items)

(***************************************************************************)
(* Properties of the settings interface, checked under SpecSettings.        *)
(***************************************************************************)
\* the call that just returned is get_setting on a key whose last successful
\* save_setting stored a value / on a key that no save_setting stored
GotSaved == call.op = "get_setting" /\ last_saved[call.key].saved

GotNeverSaved == call.op = "get_setting" /\ ~last_saved[call.key].saved

RECURSIVE JsonNative(_)
JsonNative(v) ==
    /\ v.tag \in {"None", "bool", "int", "str", "list", "dict"}
    /\ \A i \in DOMAIN v.keys : v.keys[i].tag = "str"
    /\ \A i \in DOMAIN v.elems : JsonNative(v.elems[i])

SettingRows(key) == {r \in settings : r.key = key}

\* C11: after any sequence of save_setting calls the settings table holds
\* at most one row per key, and that row holds the value (as json.dumps
\* writes it) of the most recent successful save_setting for the key; a key
\* no save_setting stored has no row.
C11_OneRowPerKey ==
    \A key \in SettingKeys :
        IF last_saved[key].saved
        THEN SettingRows(key) =
                 {[key |-> key, value |-> json_dumps(last_saved[key].value)]}
        ELSE SettingRows(key) = {}

\* save_setting of a set failed on a key, after which the row of the key
\* still holds the dict saved before, and the other key holds a row too
C11_Witness ==
    /\ call.op = "save_setting"
    /\ ~call.ok
    /\ call.value = PySet(<<PyInt("1")>>)
    /\ last_saved[call.key].saved
    /\ last_saved[call.key].value.tag = "dict"
    /\ Cardinality(settings) = 2

(***************************************************************************)
(* More properties of save_news_items, checked under Spec.                  *)
(***************************************************************************)
SaveReturned == call'.op = "save_news_items"

\* the item at place i of the batch has an id that neither a stored row nor
\* an earlier item of the batch has: its insert cannot fail
NewId(table, batch, i) ==
    /\ ~IdStored(table, batch[i].id)
    /\ \A j \in 1..(i - 1) : batch[j].id # batch[i].id

\* C12: save_news_items returns the number of rows the call added to the
\* item table, and an item whose insert fails is skipped without stopping
\* the insert of the later items of the batch: the title of every item with
\* a new id is stored when the call returns.
C12_CountIsRowsAdded ==
    [][SaveReturned =>
          /\ news_items \subseteq news_items'
          /\ call'.count = Cardinality(news_items' \ news_items)
          /\ \A i \in DOMAIN call'.batch :
                NewId(news_items, call'.batch, i) =>
                   TitleStored(news_items', call'.batch[i].title)]_vars

\* a batch of two returned 1: its first item has the id of a stored row of
\* another title and is not stored, its second item is
C12_Witness ==
    /\ call.op = "save_news_items"
    /\ Len(call.batch) = 2
    /\ call.count = 1
    /\ ItemRow(call.batch[1]) \notin news_items
    /\ ItemRow(call.batch[2]) \in news_items
    /\ \E r \in news_items :
          /\ r.id = call.batch[1].id
          /\ r.title # call.batch[1].title
    /\ ~TitleStored(news_items \ {ItemRow(call.batch[2])}, call.batch[1].title)

(***************************************************************************)
(* Properties of the notification manager, checked under SpecNotify.        *)
(***************************************************************************)
\* C13: in show_multiple_news_notifications a wait follows each item that
\* was dispatched successfully and is not the last of the input, and no
\* wait follows the last item of the input, whichever earlier items failed.
C13_NoWaitAfterLastItem ==
    LET n == Len(notify.news_items) IN
    /\ \A k \in DOMAIN notify.shown :
          (notify.shown[k] /\ k < n /\ k < notify.i) => k \in Range(notify.slept)
    /\ \A k \in Range(notify.slept) : k < n

\* C14: show_multiple_news_notifications passes every item of its input to
\* show_news_notification once, in input order, also after a notification
\* failed, and returns the number of notifications that were dispatched.
C14_EveryItemAttemptedOnce ==
    /\ Len(notify.attempted) <= Len(notify.news_items)
    /\ notify.attempted = SubSeq(notify.news_items, 1, Len(notify.attempted))
    /\ Len(notify.shown) = Len(notify.attempted)
    /\ notify.returned =>
          /\ notify.attempted = notify.news_items
          /\ notify.count =
                Cardinality({k \in DOMAIN notify.shown : notify.shown[k]})

\* a call on two items has returned 1: the first notification failed, the
\* second was dispatched
C14_Witness ==
    /\ notify.returned
    /\ Len(notify.news_items) = 2
    /\ notify.shown = <<FALSE, TRUE>>
    /\ notify.count = 1

RegistryIds == {e.id : e \in active_notifications}

\* C16: after a successful dispatch the registry holds an entry for the
\* item's id, and once the click callback of a notification has been
\* invoked the registry holds no entry for its id, whatever the outcome of
\* opening the link.
C16_ClickRemovesEntry ==
    /\ (notify.last = "show" /\ notify.shown[Len(notify.shown)]) =>
           notify.attempted[Len(notify.attempted)].id \in RegistryIds
    /\ notify.last = "click" => notify.click.id \notin RegistryIds

\* C26: an entry of the registry is removed only by the click callback of
\* its own id: no dispatch, sleep, return or toast leaving the screen takes
\* the id of an entry out of the registry, and while no notification has
\* been clicked the registry holds an entry for every item of the list that
\* was dispatched successfully.
C26_OnlyOwnClickRemoves ==
    /\ [](notify.click = NoClick =>
             \A k \in DOMAIN notify.shown :
                 notify.shown[k] => notify.attempted[k].id \in RegistryIds)
    /\ [][\A e \in active_notifications :
              \/ e.id \in {f.id : f \in active_notifications'}
              \/ notify'.last = "click" /\ notify'.click.id = e.id]_vars

C26_Witness ==
    /\ notify.click = NoClick
    /\ notify.returned
    /\ notify.count = 2
    /\ notify.attempted[1].id # notify.attempted[2].id
    /\ notify.last = "timeout"
    /\ toasts = {}
    /\ Cardinality(active_notifications) = 2

(***************************************************************************)
(* Properties of clicked notifications of stored items, checked under       *)
(* SpecClick.                                                               *)
(***************************************************************************)
\* C15: when the click callback of the notification raised for an item has
\* been invoked, the stored item of that id is read, so that get_unread_news
\* no longer returns it.
C15_ClickMarksRead ==
    notify.last = "click" =>
        \A r \in news_items : r.id = notify.click.id => r.is_read = 1

(***************************************************************************)
(* Properties of failing sources, checked under SpecFetch.                  *)
(***************************************************************************)
\* C17: when fetching one source fails, that source contributes no item to
\* the result and every item of every other source is still returned.
C17_FailedSourceContributesNothing ==
    \A w \in Workers : Fetched(w) =>
        /\ local[w].from_newsapi =
              IF local[w].api_fail = 0 THEN local[w].articles ELSE <<>>
        /\ local[w].from_rss =
              IF local[w].rss_fail = 0 THEN local[w].entries ELSE <<>>
        /\ local[w].news_items =
              fetch_all_news(local[w].from_newsapi, local[w].from_rss)

(***************************************************************************)
(* Properties of the categorization, checked under SpecCategorize.          *)
(***************************************************************************)
\* the letters of the titles that differ in case only
CasePairs == {<<"A", "a">>, <<"I", "i">>, <<"R", "r">>, <<"X", "x">>}

SameLetter(c, d) == c = d \/ <<c, d>> \in CasePairs \/ <<d, c>> \in CasePairs

\* keyword occurs in title as a substring, case ignored
Occurs(keyword, title) ==
    \E k \in 0..(Len(title) - Len(keyword)) :
        \A i \in 1..Len(keyword) : SameLetter(title[k + i], keyword[i])

HasAny(keywords, title) == \E k \in DOMAIN keywords : Occurs(keywords[k], title)

Categorized == categorized.category # "none"

\* C18: _categorize_by_keywords returns "AI" for every title that contains
\* an AI keyword as a case-insensitive substring, also when it contains a
\* tech keyword, "Tech" for every title that contains a tech keyword and no
\* AI keyword, and the default combined label for every other title.
C18_CategoryByKeywords ==
    Categorized =>
        categorized.category =
            IF HasAny(ai_keywords, categorized.title) THEN "AI"
            ELSE IF HasAny(tech_keywords, categorized.title) THEN "Tech"
            ELSE "AI/Tech"

\* a title holding the AI keyword "AI" in another case and the tech keyword
\* "AR" was categorized "AI"
C18_Witness ==
    /\ categorized.title = <<"A", "i", "A", "R">>
    /\ categorized.category = "AI"

(***************************************************************************)
(* Properties of the read-back queries, checked under Spec.                 *)
(***************************************************************************)
\* the list  news  holds the  limit  newest of  rows  (all of them when
\* there are fewer), each once, newest first
NewestFirst(news, rows, limit) ==
    /\ Len(news) = Min(limit, Cardinality(rows))
    /\ \A i, j \in DOMAIN news : i < j =>
          /\ news[i].id # news[j].id
          /\ news[i].published_time >= news[j].published_time
    /\ \A i \in DOMAIN news : \E r \in rows :
          /\ r.id = news[i].id
          /\ r.title = news[i].title
          /\ fromisoformat(r.published_time) = news[i].published_time
    /\ \A r \in rows :
          (\A i \in DOMAIN news : news[i].id # r.id) =>
             \A i \in DOMAIN news :
                news[i].published_time >= fromisoformat(r.published_time)

UnreadRows == {r \in news_items : r.is_read = 0}

\* C19: get_unread_news(limit) returns only items that are not read, in
\* non-increasing published_time order, and for every limit >= 0 the
\* min(limit, number of unread rows) newest unread items: read rows take up
\* no place of the limit.
C19_UnreadNewestFirst ==
    (call.op = "get_unread_news" /\ call.limit >= 0) =>
        /\ \A i \in DOMAIN call.news : ~call.news[i].is_read
        /\ NewestFirst(call.news, UnreadRows, call.limit)

\* get_unread_news(1) on a store whose newest row is read returned one
\* item, older than that row
C19_Witness ==
    /\ call.op = "get_unread_news"
    /\ call.limit = 1
    /\ Len(call.news) = 1
    /\ \E r \in news_items :
          /\ r.is_read = 1
          /\ fromisoformat(r.published_time) > call.news[1].published_time

\* C20: get_latest_news(limit), for every limit >= 0 and every content of
\* the store, returns min(limit, number of stored rows) items: the rows of
\* greatest published_time, in non-increasing published_time order.
C20_LatestNewestFirst ==
    (call.op = "get_latest_news" /\ call.limit >= 0) =>
        NewestFirst(call.news, news_items, call.limit)

\* get_latest_news(1) on a store of two rows of different times returned
\* the newer one
C20_Witness ==
    /\ call.op = "get_latest_news"
    /\ call.limit = 1
    /\ Len(call.news) = 1
    /\ Cardinality(news_items) = 2
    /\ \E r \in news_items :
          fromisoformat(r.published_time) < call.news[1].published_time


(***************************************************************************)
(* Properties of the items of one refresh cycle, checked under SpecRefresh. *)
(***************************************************************************)
\* C22: every item that fetch_all_news returns, from the API-style source
\* or from a feed, has the category that _categorize_by_keywords gives its
\* title.
C22_CategoryFromTitle ==
    \A w \in Workers : Fetched(w) =>
        \A i \in DOMAIN local[w].news_items :
            local[w].news_items[i].category
                = _categorize_by_keywords(local[w].news_items[i].title)

\* the place in  all_news  of the first item of that title and time
FirstAt(all_news, title, published_time) ==
    LET places == {k \in DOMAIN all_news :
                      /\ all_news[k].title = title
                      /\ all_news[k].published_time = published_time}
    IN CHOOSE k \in places : \A l \in places : k <= l

\* C25: the sort of fetch_all_news keeps the input order (API items, then
\* feed items) among items of equal published_time, so of the input items of
\* one title and one published_time the first is the one returned, and two
\* returned items of equal published_time come in their input order.
C25_TiesKeepInputOrder ==
    \A w \in Workers : Fetched(w) =>
        LET all_news == AllNews(w)
            unique_news == local[w].news_items
            At(i) == FirstAt(all_news, unique_news[i].title,
                             unique_news[i].published_time)
        IN /\ \A i \in DOMAIN unique_news : unique_news[i] = all_news[At(i)]
           /\ \A i, j \in DOMAIN unique_news :
                 (i < j /\ unique_news[i].published_time
                              = unique_news[j].published_time) => At(i) < At(j)

C25_Witness ==
    /\ pc[1] = "save"
    /\ Len(local[1].from_newsapi) = 2
    /\ Len(local[1].from_rss) = 2
    /\ Len(local[1].news_items) = 2
    /\ local[1].news_items[1].published_time = local[1].news_items[2].published_time
    /\ \A i \in 1..2 : local[1].news_items[i].source \in ApiSources
    /\ \E j \in 1..2 :
          /\ local[1].from_rss[j].title = local[1].news_items[1].title
          /\ local[1].from_rss[j].published_time = local[1].news_items[1].published_time

(***************************************************************************)
(* Properties of the stored rows over sequences of storage operations,      *)
(* checked under Spec.                                                      *)
(***************************************************************************)
\* the row with is_read left out
RowContent(r) == <<r.id, r.title, r.link, r.source, r.published_time, r.category>>

\* C23: no storage operation removes a stored row or sets its is_read from
\* 1 back to 0, and mark_as_read changes nothing but the is_read of the
\* row whose id is the one it was called with.
C23_RowsKeptReadKept ==
    [][/\ \A r \in news_items : \E s \in news_items' :
              /\ RowContent(s) = RowContent(r)
              /\ s.is_read >= r.is_read
       /\ call'.op = "mark_as_read" =>
              /\ {r \in news_items' : r.id # call'.news_id}
                     = {r \in news_items : r.id # call'.news_id}
              /\ {RowContent(r) : r \in news_items'}
                     = {RowContent(r) : r \in news_items}
              /\ settings' = settings]_vars

C23_Witness ==
    /\ call.op = "mark_as_read"
    /\ call.ok
    /\ call.news_id \in marked
    /\ \E r \in news_items : r.id = call.news_id /\ r.is_read = 1
    /\ \E r \in news_items : r.id # call.news_id /\ r.is_read = 0

\* C27: every item that get_latest_news or get_unread_news returns has the
\* id, title, link, source, published_time and category of an item that
\* save_news_items stored, the id being the stored one and not one made at
\* the read, and the is_read of that item unless mark_as_read set it since.
C27_ReadBackAsSaved ==
    call.op \in {"get_latest_news", "get_unread_news"} =>
        \A i \in DOMAIN call.news :
            /\ \E item \in CallItems(hashseed) :
                  call.news[i] = [item EXCEPT !.is_read = (@ \/ item.id \in marked)]
            /\ \E r \in news_items : /\ r.id = call.news[i].id
                                     /\ r.title = call.news[i].title

C27_Witness ==
    /\ call.op = "get_latest_news"
    /\ Len(call.news) = 2
    /\ call.news[1].is_read
    /\ ~call.news[2].is_read
    /\ call.news[1].id # call.news[2].id

(***************************************************************************)
(* Properties of refresh cycles that run to their end, checked under        *)
(* SpecCycle.                                                               *)
(***************************************************************************)
\* a step of the worker thread of cycle w
WorkerStepped(w) == pc[w] # "idle" /\ pc'[w] # pc[w]

\* C21: every refresh cycle that refresh_news started ends with one
\* completion event posted to the foreground, a NewsRefreshEvent after a
\* save that returned or a NewsRefreshErrorEvent after an exception, never
\* more than one; and no step of the worker thread writes the status bar.
C21_CycleEndsInOneEvent ==
    /\ \A w \in Workers :
           (pc[w] = "fetch") ~>
               (/\ pc[w] = "done"
                /\ local[w].posted = 1
                /\ local[w].event \in {"NewsRefreshEvent", "NewsRefreshErrorEvent"})
    /\ [](\A w \in Workers :
              /\ local[w].posted <= 1
              /\ pc[w] = "done" => local[w].posted = 1
              /\ local[w].posted = 1 => pc[w] = "done")
    /\ [][(\E w \in Workers : WorkerStepped(w)) => statusBar' = statusBar]_vars

C21_Witness ==
    /\ pc = [w \in Workers |-> "done"]
    /\ local[1].event = "NewsRefreshErrorEvent"
    /\ local[2].event = "NewsRefreshEvent"
    /\ local[2].saved_count = 2
    /\ \A w \in Workers : local[w].posted = 1
    /\ statusBar = "fetching"
====
